---- MODULE Spec2Model ----
(***************************************************************************)
(* A model of the order-book replay of models.py (OrderBook, Order,        *)
(* process_orders) and of the event-driven back-test engine of             *)
(* order_book_tester.py (Order, Trade, Engine, Strategy, OBIStrategy).     *)
(*                                                                         *)
(* Python objects are modelled by a heap: a function from handles to the   *)
(* object's fields.  A list or a dict that holds an object holds its       *)
(* handle, so that two containers share one mutable object as they do in   *)
(* the source, and list.remove (which compares by identity, Order defines  *)
(* no __eq__) removes a handle.                                            *)
(***************************************************************************)
EXTENDS Integers, Sequences, FiniteSets, TLC

\* ------------------------------------------------------------------ bounds
MaxPrice == 2          \* prices of the messages are 1..MaxPrice
MaxQty == 2            \* quantities of the messages are 1..MaxQty
MaxOrderId == 2        \* order ids of the messages are 1..MaxOrderId
MaxOrders == 3         \* Order objects alive in the book at one time
MaxTime == 2           \* network_time of a record is 1..MaxTime
MaxRecords == 3        \* rows of the DataFrame given to process_orders
MaxLevels == 5         \* prices of the one-order-per-level books
MaxSteps == 3          \* rows of the DataFrame given to Engine.run
MaxStamp == 3          \* labels of the index of that DataFrame are 1..MaxStamp
MaxLatency == 2        \* int(latency) of an order is 0..MaxLatency
MaxRows == 4           \* rows of the DataFrame of a run over an ordered index

\* --------------------------------------------------- program constants
OrderSize == 10        \* the size of the orders of OBIStrategy.on_update
TickOffset == 2        \* 0.02, the distance of tp and sl, in ticks of 0.01
Spread == 1            \* 0.01, the default spread, in hundredths
InitialCash == 0       \* the default initial_cash
Infinity == 1000000    \* np.Infinity: above every price of the model

Prices == 1..MaxPrice
Qtys == 1..MaxQty
OrderIds == 1..MaxOrderId
Sides == {"B", "S"}
Times == 1..MaxTime
AssetName == "AKBNK"

\* ------------------------------------------------------- dicts and lists
Put(d, k, v) == [x \in (DOMAIN d) \cup {k} |-> IF x = k THEN v ELSE d[x]]
Del(d, k) == [x \in (DOMAIN d) \ {k} |-> d[x]]
EmptyDict == << >>

Contains(list, x) == \E i \in 1..Len(list) : list[i] = x

\* list.remove(x): drops the first element equal to x
Remove(list, x) ==
    LET i == CHOOSE j \in 1..Len(list) :
                 list[j] = x /\ \A k \in 1..(j - 1) : list[k] # x
    IN SubSeq(list, 1, i - 1) \o SubSeq(list, i + 1, Len(list))

SetMin(S) == CHOOSE x \in S : \A y \in S : x <= y
SetMax(S) == CHOOSE x \in S : \A y \in S : y <= x

\* the keys of a SortedDict, ascending
RECURSIVE SortedKeys(_)
SortedKeys(S) ==
    IF S = {} THEN << >>
    ELSE LET m == SetMin(S) IN <<m>> \o SortedKeys(S \ {m})

Reverse(list) == [i \in 1..Len(list) |-> list[Len(list) + 1 - i]]

\* list[-n:] and list[:n]
LastN(list, n) ==
    IF Len(list) <= n THEN list ELSE SubSeq(list, Len(list) - n + 1, Len(list))
FirstN(list, n) ==
    IF Len(list) <= n THEN list ELSE SubSeq(list, 1, n)

RECURSIVE Join(_, _)
Join(sep, strs) ==
    IF Len(strs) = 0 THEN ""
    ELSE IF Len(strs) = 1 THEN strs[1]
    ELSE strs[1] \o sep \o Join(sep, Tail(strs))

RECURSIVE Concat(_)
Concat(lists) ==
    IF Len(lists) = 0 THEN << >> ELSE Head(lists) \o Concat(Tail(lists))

RECURSIVE SumSeq(_)
SumSeq(list) == IF Len(list) = 0 THEN 0 ELSE Head(list) + SumSeq(Tail(list))

\* ------------------------------------------------------------- variables
VARIABLES
    order_book,     \* the OrderBook: its six dicts, the Order objects they
                    \* reference (heap) and whether a call raised (raised)
    snapshots,      \* process_orders: the list of snapshots built so far
    network_times,  \* process_orders: the network_time column of the rows
                    \* of df_records consumed so far
    engine,         \* the Engine: current_time, the rows of data read so
                    \* far, the position of run and what it returned
    strategy,       \* the OBIStrategy: cash, orders, positions, parameters
    _order_id_counter,  \* the class attribute Order._order_id_counter
    _trade_id_counter   \* the class attribute Trade._trade_id_counter

book_vars == <<order_book, snapshots, network_times>>
engine_vars == <<engine, strategy, _order_id_counter, _trade_id_counter>>
vars == <<order_book, snapshots, network_times,
          engine, strategy, _order_id_counter, _trade_id_counter>>

\* ------------------------------------------------------------- OrderBook
OrderBookNew ==
    [bids |-> EmptyDict, asks |-> EmptyDict,
     bid_order_dict |-> EmptyDict, ask_order_dict |-> EmptyDict,
     bid_qty_dict |-> EmptyDict, ask_qty_dict |-> EmptyDict,
     heap |-> EmptyDict, raised |-> FALSE]

\* the three dicts of the side a message names ('B' is the bid side, every
\* other side the ask side)
LevelsOf(side) == IF side = "B" THEN "bids" ELSE "asks"
IndexOf(side) == IF side = "B" THEN "bid_order_dict" ELSE "ask_order_dict"
QtyOf(side) == IF side = "B" THEN "bid_qty_dict" ELSE "ask_qty_dict"

Range(list) == {list[i] : i \in 1..Len(list)}

\* the position of the first x in a list
IndexIn(list, x) == SetMin({i \in 1..Len(list) : list[i] = x})

\* Handles are opaque (they stand for object identity), so after every call
\* on the book the live objects are renumbered in a fixed order: the bid
\* queues by ascending price, then the ask queues, then any object only an
\* index still holds.  An object nothing references is freed.  Two books
\* that differ only in the names of their handles become one state.
QueueOrder(ob) ==
    Concat([i \in 1..Cardinality(DOMAIN ob.bids) |-> ob.bids[SortedKeys(DOMAIN ob.bids)[i]]])
    \o Concat([i \in 1..Cardinality(DOMAIN ob.asks) |-> ob.asks[SortedKeys(DOMAIN ob.asks)[i]]])

IndexedOnly(ob) ==
    ({ob.bid_order_dict[k] : k \in DOMAIN ob.bid_order_dict}
     \cup {ob.ask_order_dict[k] : k \in DOMAIN ob.ask_order_dict})
    \ Range(QueueOrder(ob))

Normalize(ob) ==
    LET live == QueueOrder(ob) \o SortedKeys(IndexedOnly(ob))
        name(h) == IndexIn(live, h)
    IN  [ob EXCEPT
           !.bids = [p \in DOMAIN ob.bids |->
                       [i \in 1..Len(ob.bids[p]) |-> name(ob.bids[p][i])]],
           !.asks = [p \in DOMAIN ob.asks |->
                       [i \in 1..Len(ob.asks[p]) |-> name(ob.asks[p][i])]],
           !.bid_order_dict = [k \in DOMAIN ob.bid_order_dict |-> name(ob.bid_order_dict[k])],
           !.ask_order_dict = [k \in DOMAIN ob.ask_order_dict |-> name(ob.ask_order_dict[k])],
           !.heap = [i \in 1..Len(live) |-> ob.heap[live[i]]]]

\* Order(**record): a fresh object; the lowest free handle stands for it
NewHandle(ob) == SetMin((1..(Cardinality(DOMAIN ob.heap) + 1)) \ DOMAIN ob.heap)

\* the fields of an Order that the book reads
OrderObject(order) ==
    [order_id |-> order.order_id, side |-> order.side,
     price |-> order.price, qty |-> order.qty]

\* a variant of unknown_order that raises, as the docstring of
\* delete_order announces, instead of logging
unknown_order_raises(ob) == [ob EXCEPT !.raised = TRUE]

\* logging.error(...): the message names an order the side does not hold
unknown_order(ob) == ob

\* a variant of remove_from_level that leaves an emptied level in place
remove_from_level_keeps_empty(ob, lv, qd, h) ==
    LET p == ob.heap[h].price
    IN  IF ~Contains(ob[lv][p], h) \/ p \notin DOMAIN ob[qd]
        THEN [ob EXCEPT !.raised = TRUE]
        ELSE [ob EXCEPT ![lv][p] = Remove(@, h),
                        ![qd][p] = @ - ob.heap[h].qty]

\* self.bids[price].remove(original_order), the level quantity lowered by
\* the order's quantity, and the level dropped once its queue is empty
remove_from_level(ob, lv, qd, h) ==
    LET p == ob.heap[h].price
        removed ==
            [ob EXCEPT ![lv][p] = Remove(@, h),
                       ![qd][p] = @ - ob.heap[h].qty]
    IN  IF ~Contains(ob[lv][p], h) \/ p \notin DOMAIN ob[qd]
        THEN [ob EXCEPT !.raised = TRUE]              \* ValueError, KeyError
        ELSE IF Len(removed[lv][p]) = 0
             THEN [removed EXCEPT ![lv] = Del(@, p), ![qd] = Del(@, p)]
             ELSE removed

\* a variant of delete_order that leaves the order in the id index
delete_order_keeps_index(ob, order) ==
    LET lv == LevelsOf(order.side)
        ix == IndexOf(order.side)
        qd == QtyOf(order.side)
    IN  IF order.order_id \in DOMAIN ob[ix]
        THEN LET h == ob[ix][order.order_id]
                 original_order == ob.heap[h]
             IN  IF original_order.price \in DOMAIN ob[lv]
                 THEN remove_from_level(ob, lv, qd, h)
                 ELSE ob
        ELSE unknown_order(ob)

\* OrderBook.delete_order(order): order is a message or a resting order;
\* only its side and order_id are read
delete_order(ob, order) ==
    LET lv == LevelsOf(order.side)
        ix == IndexOf(order.side)
        qd == QtyOf(order.side)
    IN  IF order.order_id \in DOMAIN ob[ix]
        THEN LET h == ob[ix][order.order_id]
                 original_order == ob.heap[h]
                 taken ==
                     IF original_order.price \in DOMAIN ob[lv]
                     THEN remove_from_level(ob, lv, qd, h)
                     ELSE ob
             IN  IF taken.raised THEN taken
                 ELSE [taken EXCEPT ![ix] = Del(@, order.order_id)]
        ELSE unknown_order(ob)

\* a variant of reduce that lowers the order and forgets the level
reduce_forgets_level(ob, qd, h, qty) ==
    [ob EXCEPT !.heap[h].qty = @ - qty]

\* existing_order.qty -= order.qty; qty_dict[existing_order.price] -= order.qty
reduce(ob, qd, h, qty) ==
    IF ob.heap[h].price \notin DOMAIN ob[qd]
    THEN [ob EXCEPT !.heap[h].qty = @ - qty, !.raised = TRUE]   \* KeyError
    ELSE [ob EXCEPT !.heap[h].qty = @ - qty,
                    ![qd][ob.heap[h].price] = @ - qty]

\* a variant of execute_order that keeps an order executed down to zero
execute_order_keeps_zero(ob, order) ==
    LET ix == IndexOf(order.side)
        qd == QtyOf(order.side)
    IN  IF order.order_id \in DOMAIN ob[ix]
        THEN LET h == ob[ix][order.order_id]
                 reduced == reduce(ob, qd, h, order.qty)
             IN  IF ~reduced.raised /\ reduced.heap[h].qty < 0
                 THEN delete_order(reduced, reduced.heap[h])
                 ELSE reduced
        ELSE unknown_order(ob)

\* a variant of execute_order that never deletes the order it has reduced
execute_order_only_reduces(ob, order) ==
    LET ix == IndexOf(order.side)
        qd == QtyOf(order.side)
    IN  IF order.order_id \in DOMAIN ob[ix]
        THEN reduce(ob, qd, ob[ix][order.order_id], order.qty)
        ELSE unknown_order(ob)

\* OrderBook.execute_order(order)
execute_order(ob, order) ==
    LET ix == IndexOf(order.side)
        qd == QtyOf(order.side)
    IN  IF order.order_id \in DOMAIN ob[ix]
        THEN LET h == ob[ix][order.order_id]
                 reduced == reduce(ob, qd, h, order.qty)
             IN  IF ~reduced.raised /\ reduced.heap[h].qty <= 0
                 THEN delete_order(reduced, reduced.heap[h])
                 ELSE reduced
        ELSE unknown_order(ob)

\* a variant of enqueue that puts the order at the head of the queue
enqueue_at_head(queue, h) == <<h>> \o queue

\* self.bids[order.price].append(order)
enqueue(queue, h) == Append(queue, h)

\* the 'A' branch of OrderBook.add_order
add_resting(ob, order) ==
    LET lv == LevelsOf(order.side)
        ix == IndexOf(order.side)
        qd == QtyOf(order.side)
        h == NewHandle(ob)
        opened ==
            IF order.price \notin DOMAIN ob[lv]
            THEN [ob EXCEPT ![lv] = Put(@, order.price, << >>),
                            ![qd] = Put(@, order.price, 0)]
            ELSE ob
    IN  IF order.price \notin DOMAIN opened[qd]
        THEN [ob EXCEPT !.raised = TRUE]                 \* KeyError
        ELSE [opened EXCEPT ![lv][order.price] = enqueue(@, h),
                            ![ix] = Put(@, order.order_id, h),
                            ![qd][order.price] = @ + order.qty,
                            !.heap = Put(@, h, OrderObject(order))]

\* OrderBook.add_order(order)
add_order(ob, order) ==
    Normalize(IF order.msg_type = "A" THEN add_resting(ob, order)
              ELSE IF order.msg_type = "D" THEN delete_order(ob, order)
              ELSE IF order.msg_type = "E" THEN execute_order(ob, order)
              ELSE ob)

\* a variant of bid_prices that slices the lowest three prices
bid_prices_lowest(ob) == Reverse(FirstN(SortedKeys(DOMAIN ob.bids), 3))

\* OrderBook.snapshot(timestamp, asset_name)
bid_prices(ob) == Reverse(LastN(SortedKeys(DOMAIN ob.bids), 3))
ask_prices(ob) == FirstN(SortedKeys(DOMAIN ob.asks), 3)

\* dict.get(key, default)
Get(d, k, default) == IF k \in DOMAIN d THEN d[k] ELSE default

qtys_at(qty_dict, prices) == [i \in 1..Len(prices) |-> Get(qty_dict, prices[i], 0)]

\* f"A-{side}-{price}-{order.qty}-{order.order_id}"
MoldEntry(side, price, o) ==
    "A-" \o side \o "-" \o ToString(price) \o "-" \o ToString(o.qty)
         \o "-" \o ToString(o.order_id)

\* the entries of one side: the listed prices in their order, and at each
\* price the orders of the level's queue in queue order
SideEntries(ob, side, prices, book) ==
    Concat([i \in 1..Len(prices) |->
              LET q == Get(book, prices[i], << >>)
              IN [j \in 1..Len(q) |-> MoldEntry(side, prices[i], ob.heap[q[j]])]])

mold_packages(ob) ==
    SideEntries(ob, "B", bid_prices(ob), ob.bids)
    \o SideEntries(ob, "S", ask_prices(ob), ob.asks)

\* list[i] if the list has an i-th element else 0
At(list, i) == IF Len(list) >= i THEN list[i] ELSE 0

snapshot(ob, timestamp, asset_name) ==
    LET bid_px == bid_prices(ob)
        ask_px == ask_prices(ob)
        bid_qtys == qtys_at(ob.bid_qty_dict, bid_px)
        ask_qtys == qtys_at(ob.ask_qty_dict, ask_px)
        mold_package == Join(";", mold_packages(ob))
    IN  [Date |-> timestamp, Asset |-> asset_name,
         bid1qty |-> At(bid_qtys, 1), bid1px |-> At(bid_px, 1),
         bid2qty |-> At(bid_qtys, 2), bid2px |-> At(bid_px, 2),
         bid3qty |-> At(bid_qtys, 3), bid3px |-> At(bid_px, 3),
         ask1px |-> At(ask_px, 1), ask1qty |-> At(ask_qtys, 1),
         ask2px |-> At(ask_px, 2), ask2qty |-> At(ask_qtys, 2),
         ask3px |-> At(ask_px, 3), ask3qty |-> At(ask_qtys, 3)]
        @@ ("Mold Package" :> mold_package)

\* ------------------------------------- order_book_tester.py: Order, Trade
\* Prices are counted in ticks of 0.01, times in nanoseconds.  A dict the
\* source fills under keys of an increasing counter and never deletes from
\* is modelled by the list of its values in insertion order.
Min(a, b) == IF a <= b THEN a ELSE b
Last(list) == list[Len(list)]

\* the sum of the 'volume' entries of a list of execution records
Volume(records) == SumSeq([n \in 1..Len(records) |-> records[n].volume])

\* the values np.random.normal(20, 10) can give, in tenths of a nanosecond
Draws == (0 - 5)..(10 * MaxLatency + 5)

\* int() of a number of tenths: the integer part, rounded towards zero
int(tenths) ==
    IF tenths >= 0 THEN tenths \div 10 ELSE 0 - ((0 - tenths) \div 10)

\* the nanoseconds _get_latency can return: int(latency) of a draw the
\* while loop let through, which is 0 for a draw below 1
_get_latency == {int(latency) : latency \in {draw \in Draws : ~(draw <= 0)}}

_adjust_time_with_latency(time, latency) == time + latency

\* Order.__init__; time is the constructor's argument, which the object
\* carries here so that the submit time of an order can be named
Order(size, side, time, price, latency, id) ==
    [id |-> id, side |-> side, size |-> size, type |-> "market",
     time |-> time,
     bist_time |-> _adjust_time_with_latency(time, latency),
     price |-> price, sl |-> 0, tp |-> Infinity,
     deleted |-> FALSE, exec_data |-> << >>]

waiting_volume(order) == order.size - Volume(order.exec_data)

\* a variant of execute that records the volume it is given
execute_uncapped(order, price, volume, time) ==
    [order EXCEPT !.exec_data =
        Append(@, [price |-> price, volume |-> volume, time |-> time])]

execute(order, price, volume, time) ==
    LET wv == waiting_volume(order)
        capped == IF volume > wv THEN wv ELSE volume
    IN  [order EXCEPT !.exec_data =
            Append(@, [price |-> price, volume |-> capped, time |-> time])]

\* Trade.__init__; close_time is the attribute position_close sets, 0
\* while the trade has none
Trade(side, size, price, time, sl, tp, id) ==
    [id |-> id, side |-> side, price |-> price, size |-> size,
     time |-> time, sl |-> sl, tp |-> tp, close_time |-> 0,
     close_data |-> << >>]

active_size(trade) == trade.size - Volume(trade.close_data)

\* a variant of close that takes all of the volume available
close_all_available(trade, price, volume_available, time) ==
    [trade EXCEPT !.close_data =
        Append(@, [price |-> price, volume |-> volume_available,
                   time |-> time])]

close(trade, price, volume_available, time) ==
    [trade EXCEPT !.close_data =
        Append(@, [price |-> price,
                   volume |-> Min(active_size(trade), volume_available),
                   time |-> time])]

\* ------------------------------------------------- Strategy, OBIStrategy
\* obi_threshold is counted in tenths, spread in hundredths
StrategyNew(obi_threshold) ==
    [cash |-> InitialCash, current_time |-> 0,
     orders |-> << >>, positions |-> << >>,
     obi_threshold |-> obi_threshold, spread |-> Spread]

\* a variant of the test of waiting_orders that does not read deleted
waiting_while_deleted(order) == waiting_volume(order) > 0

IsWaiting(order) == waiting_volume(order) > 0 /\ order.deleted = FALSE
\* the places in orders of the values of the dict waiting_orders, in its order
waiting_orders(st) ==
    SortedKeys({k \in 1..Len(st.orders) : IsWaiting(st.orders[k])})

IsActive(pos) == active_size(pos) > 0
current_positions(st) ==
    SortedKeys({j \in 1..Len(st.positions) : IsActive(st.positions[j])})

\* the strategy and the two id counters, which the methods below change
\* together
World(st, orders_made, trades_made) ==
    [strategy |-> st, _order_id_counter |-> orders_made,
     _trade_id_counter |-> trades_made]

order_send(st, order) == [st EXCEPT !.orders = Append(@, order)]

\* position_open for the order at place k of orders
position_open(w, k, price, volume, time) ==
    LET st == w.strategy
        order == st.orders[k]
        made == w._trade_id_counter + 1
        trade == Trade(order.side, volume, price, time, order.sl, order.tp,
                       ToString(made))
        cash == IF order.side = "S" THEN st.cash + volume * price
                ELSE IF order.side = "B" THEN st.cash - volume * price
                ELSE st.cash
    IN  [w EXCEPT !._trade_id_counter = made,
                  !.strategy = [st EXCEPT
                      !.positions = Append(@, trade),
                      !.orders[k] = execute(order, price, volume, time),
                      !.cash = cash]]

\* position_close for the trade at place j of positions.  The elif of the
\* source compares trade.size, a number, with 'S' and never holds.
position_close(st, j, price, volume_available, time) ==
    LET closed == [close(st.positions[j], price, volume_available, time)
                       EXCEPT !.close_time = time]
    IN  [st EXCEPT !.positions[j] = closed,
                   !.cash = IF closed.side = "B"
                            THEN @ + (price - closed.price) * active_size(closed)
                            ELSE @]

\* close_positions: every trade of the side, closed ones included
RECURSIVE close_positions(_, _, _, _, _, _)
close_positions(st, side, price, volume, time, from) ==
    IF from > Len(st.positions) THEN st
    ELSE close_positions(
             IF st.positions[from].side = side
             THEN position_close(st, from, price, volume, time)
             ELSE st,
             side, price, volume, time, from + 1)

\* calculate_obi for one row.  OBI = (bid1qty - ask1qty) / (bid1qty +
\* ask1qty) is NaN for 0/0 and every comparison with NaN is False.
calculate_obi(row, obi_threshold, spread) ==
    LET b == row.bid1qty
        a == row.ask1qty
        defined == b + a # 0
        buy == defined /\ 10 * (b - a) > obi_threshold * (b + a)
        sell == defined /\ 10 * (b - a) < (0 - obi_threshold) * (b + a)
        signal == IF sell THEN 0 - 1 ELSE IF buy THEN 1 ELSE 0
    IN  IF 100 * (a - b) > spread THEN 0 ELSE signal

\* OBIStrategy.on_update at the row of current_time
on_update(w, row, latency) ==
    LET st == w.strategy
        now == st.current_time
        obi_signal == calculate_obi(row, st.obi_threshold, st.spread)
        buyers_price == row.bid1px
        sellers_price == row.ask1px
        made == w._order_id_counter + 1
    IN  IF obi_signal = 1 /\ sellers_price # 0
        THEN LET order == [Order(OrderSize, "B", now, sellers_price, latency,
                                 ToString(made))
                              EXCEPT !.tp = sellers_price + TickOffset,
                                     !.sl = sellers_price - TickOffset]
             IN  [w EXCEPT !._order_id_counter = made,
                           !.strategy = order_send(
                               close_positions(st, "S", buyers_price,
                                               row.bid1qty, now, 1), order)]
        ELSE IF obi_signal = 0 - 1 /\ buyers_price # 0
        THEN LET order == [Order(OrderSize, "S", now, sellers_price, latency,
                                 ToString(made))
                              EXCEPT !.tp = buyers_price - TickOffset,
                                     !.sl = buyers_price + TickOffset]
             IN  [w EXCEPT !._order_id_counter = made,
                           !.strategy = order_send(
                               close_positions(st, "B", sellers_price,
                                               row.ask1qty, now, 1), order)]
        ELSE w

\* ---------------------------------------------------------------- Engine
\* a variant of arrived that lets an order through before its bist_time
arrived_at_once(order, current_time) == TRUE

\* the look-ahead guard of _fill_orders
arrived(order, current_time) == order.bist_time <= current_time

\* the body of the loop of _fill_orders for the order at place k
fill_order(w, k, row, current_time) ==
    LET order == w.strategy.orders[k]
        offered_price == IF order.side = "S" THEN row.bid1px ELSE row.ask1px
    IN  IF ~arrived(order, current_time) THEN w
        ELSE IF order.side \notin {"S", "B"} THEN w
        ELSE IF offered_price >= order.price
        THEN position_open(w, k, offered_price,
                           Min(row.ask1qty, order.size), current_time)
        ELSE IF order.type = "market"
        THEN [w EXCEPT !.strategy.orders[k].deleted = TRUE]
        ELSE w

RECURSIVE fill_each(_, _, _, _)
fill_each(w, places, row, current_time) ==
    IF Len(places) = 0 THEN w
    ELSE fill_each(fill_order(w, Head(places), row, current_time),
                   Tail(places), row, current_time)

\* the loop runs over the dict waiting_orders built before it starts
_fill_orders(w, row, current_time) ==
    fill_each(w, waiting_orders(w.strategy), row, current_time)

\* the body of the loop of _check_trades for the trade at place j
check_trade(st, j, row, current_time) ==
    LET trade == st.positions[j]
    IN  IF trade.side = "B"
        THEN IF trade.sl <= row.ask1px \/ trade.tp >= row.ask1px
             THEN position_close(st, j, row.ask1px, row.ask1qty, current_time)
             ELSE st
        ELSE IF trade.side = "S"
        THEN IF trade.sl >= row.bid1px \/ trade.tp <= row.bid1px
             THEN position_close(st, j, row.bid1px, row.bid1qty, current_time)
             ELSE st
        ELSE st

RECURSIVE check_each(_, _, _, _)
check_each(st, places, row, current_time) ==
    IF Len(places) = 0 THEN st
    ELSE check_each(check_trade(st, Head(places), row, current_time),
                    Tail(places), row, current_time)

_check_trades(st, row, current_time) ==
    check_each(st, current_positions(st), row, current_time)

\* the value run gives the open positions after the loop
hold_asset_value(st, last_bid, last_ask) ==
    SumSeq([j \in 1..Len(st.positions) |->
               LET pos == st.positions[j]
               IN  IF ~IsActive(pos) THEN 0
                   ELSE IF pos.side = "B" THEN active_size(pos) * last_bid
                   ELSE 0 - active_size(pos) * last_ask])

ZeroRow == [bid1px |-> 0, bid1qty |-> 0, ask1px |-> 0, ask1qty |-> 0]

\* an Engine with data and strategy added, before run; index and data
\* hold the labels and the rows of the DataFrame the loop of run has
\* reached, the last of them the row of current_time
EngineNew ==
    [pc |-> "for", current_time |-> 0, index |-> << >>, data |-> << >>,
     raised |-> "",
     result |-> [initial_balance |-> 0, cash |-> 0, hold_asset_value |-> 0]]

\* self.data.loc[self.current_time]
loc(e) == e.data[Len(e.data)]

\* self.data[self.data[column] != 0][column], the list .iloc[-1] reads
NonZero(data, column) ==
    LET places == SortedKeys({i \in 1..Len(data) : data[i][column] # 0})
    IN  [n \in 1..Len(places) |-> data[places[n]][column]]

\* ------------------------------------------------------- the input rows
\* the rows of the DataFrame: one record per message.  bist_time and
\* que_loc are carried by Order and read by nothing in the book; the price
\* of a Delete row and the price and quantity of a Delete row are not read
\* either and are fixed.
AddRecords ==
    [network_time : Times, msg_type : {"A"}, asset_name : {AssetName},
     side : Sides, price : Prices, qty : Qtys, order_id : OrderIds]
DeleteRecords ==
    [network_time : Times, msg_type : {"D"}, asset_name : {AssetName},
     side : Sides, price : {1}, qty : {1}, order_id : OrderIds]
ExecuteRecords ==
    [network_time : Times, msg_type : {"E"}, asset_name : {AssetName},
     side : Sides, price : {1}, qty : Qtys, order_id : OrderIds]
Records == AddRecords \cup DeleteRecords \cup ExecuteRecords

\* ------------------------------------------------------ process_orders
\* a variant of emit that appends every snapshot
emit_always_appends(snaps, snap) == Append(snaps, snap)

\* the last snapshot is replaced when it carries the new snapshot's Date,
\* else the new snapshot is appended
emit(snaps, snap) ==
    IF Len(snaps) > 0 /\ snaps[Len(snaps)].Date = snap.Date
    THEN [snaps EXCEPT ![Len(snaps)] = snap]
    ELSE Append(snaps, snap)

\* one iteration of the loop of process_orders over df_records
process_record(ob, snaps, record) ==
    LET book == add_order(ob, record)
    IN  IF book.raised
        THEN [order_book |-> book, snapshots |-> snaps]
        ELSE [order_book |-> book,
              snapshots |-> emit(snaps, snapshot(book, record.network_time,
                                                 record.asset_name))]

Init ==
    /\ order_book = OrderBookNew
    /\ snapshots = << >>
    /\ network_times = << >>
    /\ engine = EngineNew
    /\ strategy = StrategyNew(7)
    /\ _order_id_counter = 0
    /\ _trade_id_counter = 0

\* the guard that keeps the book finite
RoomFor(record) ==
    record.msg_type = "A" => Cardinality(DOMAIN order_book.heap) < MaxOrders

CanProcess(record) ==
    /\ ~order_book.raised
    /\ Len(network_times) < MaxRecords
    /\ RoomFor(record)

ProcessAdd ==
    \E record \in AddRecords :
        /\ CanProcess(record)
        /\ LET r == process_record(order_book, snapshots, record)
           IN  order_book' = r.order_book /\ snapshots' = r.snapshots
        /\ network_times' = Append(network_times, record.network_time)
        /\ UNCHANGED engine_vars

ProcessDelete ==
    \E record \in DeleteRecords :
        /\ CanProcess(record)
        /\ LET r == process_record(order_book, snapshots, record)
           IN  order_book' = r.order_book /\ snapshots' = r.snapshots
        /\ network_times' = Append(network_times, record.network_time)
        /\ UNCHANGED engine_vars

ProcessExecute ==
    \E record \in ExecuteRecords :
        /\ CanProcess(record)
        /\ LET r == process_record(order_book, snapshots, record)
           IN  order_book' = r.order_book /\ snapshots' = r.snapshots
        /\ network_times' = Append(network_times, record.network_time)
        /\ UNCHANGED engine_vars

NextReplay == ProcessAdd \/ ProcessDelete \/ ProcessExecute
SpecReplay == Init /\ [][NextReplay]_vars

\* a caller that drives one OrderBook through add_order alone
Untimed(records) == {r \in records : r.network_time = 1}

AddMessage ==
    \E order \in Untimed(AddRecords) :
        /\ ~order_book.raised
        /\ RoomFor(order)
        /\ order_book' = add_order(order_book, order)
        /\ UNCHANGED <<snapshots, network_times>>
        /\ UNCHANGED engine_vars

DeleteMessage ==
    \E order \in Untimed(DeleteRecords) :
        /\ ~order_book.raised
        /\ order_book' = add_order(order_book, order)
        /\ UNCHANGED <<snapshots, network_times>>
        /\ UNCHANGED engine_vars

ExecuteMessage ==
    \E order \in Untimed(ExecuteRecords) :
        /\ ~order_book.raised
        /\ order_book' = add_order(order_book, order)
        /\ UNCHANGED <<snapshots, network_times>>
        /\ UNCHANGED engine_vars

NextBook == AddMessage \/ DeleteMessage \/ ExecuteMessage
SpecBook == Init /\ [][NextBook]_vars

\* a caller that keeps one order at a price level: the order at price p
\* of the bid side has id p, the one of the ask side id MaxLevels + p, and
\* its quantity is p, so that no two levels of a side hold one quantity
LevelId(side, price) == IF side = "B" THEN price ELSE MaxLevels + price
LevelRecord(type, side, price, qty) ==
    [network_time |-> 1, msg_type |-> type, asset_name |-> AssetName,
     side |-> side, price |-> price, qty |-> qty,
     order_id |-> LevelId(side, price)]

LevelAdd ==
    \E side \in Sides, price \in 1..MaxLevels :
        /\ ~order_book.raised
        /\ price \notin DOMAIN order_book[LevelsOf(side)]
        /\ order_book' = add_order(order_book,
                                   LevelRecord("A", side, price, price))
        /\ UNCHANGED <<snapshots, network_times>>
        /\ UNCHANGED engine_vars

LevelDelete ==
    \E side \in Sides, price \in 1..MaxLevels :
        /\ ~order_book.raised
        /\ order_book' = add_order(order_book, LevelRecord("D", side, price, 1))
        /\ UNCHANGED <<snapshots, network_times>>
        /\ UNCHANGED engine_vars

NextLevels == LevelAdd \/ LevelDelete
SpecLevels == Init /\ [][NextLevels]_vars

\* ------------------------------------------------------------ Engine.run
\* the rows of data the loop can meet: bid1px, bid1qty, ask1px, ask1qty of
\* a snapshot (0 on a side without levels)
BookRow(bid1px, bid1qty, ask1px, ask1qty) ==
    [bid1px |-> bid1px, bid1qty |-> bid1qty,
     ask1px |-> ask1px, ask1qty |-> ask1qty]
BookRows ==
    {BookRow(100, 10, 101, 0), BookRow(100, 10, 101, 4),
     BookRow(100, 4, 101, 10), BookRow(102, 4, 103, 12), ZeroRow}

\* the labels of the index of data: distinct, in any order
Stamps == 1..MaxStamp

\* 0.7 is the threshold of the main program; under a negative threshold
\* the sell signal survives the spread filter
ObiThresholds == {7, 0 - 5}

InitEngine ==
    /\ order_book = OrderBookNew
    /\ snapshots = << >>
    /\ network_times = << >>
    /\ engine = EngineNew
    /\ strategy \in {StrategyNew(obi_threshold) :
                        obi_threshold \in ObiThresholds}
    /\ _order_id_counter = 0
    /\ _trade_id_counter = 0

\* `for current_time in self.data.index` reaches the next row
ForLoop ==
    /\ engine.pc = "for"
    /\ Len(engine.index) < MaxSteps
    /\ \E current_time \in Stamps \ Range(engine.index), row \in BookRows :
        /\ engine' = [engine EXCEPT
               !.pc = "_check_trades",
               !.current_time = current_time,
               !.index = Append(@, current_time),
               !.data = Append(@, row)]
        /\ strategy' = [strategy EXCEPT !.current_time = current_time]
    /\ UNCHANGED <<_order_id_counter, _trade_id_counter>>
    /\ UNCHANGED book_vars

CheckTrades ==
    /\ engine.pc = "_check_trades"
    /\ strategy' = _check_trades(strategy, loc(engine), engine.current_time)
    /\ engine' = [engine EXCEPT !.pc = "_fill_orders"]
    /\ UNCHANGED <<_order_id_counter, _trade_id_counter>>
    /\ UNCHANGED book_vars

FillOrders ==
    /\ engine.pc = "_fill_orders"
    /\ LET w == _fill_orders(World(strategy, _order_id_counter,
                                   _trade_id_counter),
                             loc(engine), engine.current_time)
       IN  /\ strategy' = w.strategy
           /\ _trade_id_counter' = w._trade_id_counter
    /\ engine' = [engine EXCEPT !.pc = "on_update"]
    /\ UNCHANGED _order_id_counter
    /\ UNCHANGED book_vars

\* a variant of the loop body that calls on_update where _fill_orders is due
OnUpdateBeforeFill ==
    /\ engine.pc = "_fill_orders"
    /\ \E latency \in _get_latency :
         LET w == on_update(World(strategy, _order_id_counter,
                                  _trade_id_counter), loc(engine), latency)
         IN  /\ strategy' = w.strategy
             /\ _order_id_counter' = w._order_id_counter
    /\ engine' = [engine EXCEPT !.pc = "for"]
    /\ UNCHANGED _trade_id_counter
    /\ UNCHANGED book_vars

OnUpdate ==
    /\ engine.pc = "on_update"
    /\ \E latency \in _get_latency :
         LET w == on_update(World(strategy, _order_id_counter,
                                  _trade_id_counter), loc(engine), latency)
         IN  /\ strategy' = w.strategy
             /\ _order_id_counter' = w._order_id_counter
    /\ engine' = [engine EXCEPT !.pc = "for"]
    /\ UNCHANGED _trade_id_counter
    /\ UNCHANGED book_vars

\* the index is exhausted: run raises on empty data, raises where no row
\* has a non-zero bid1px or none a non-zero ask1px, and else returns the
\* balances
EndRun ==
    /\ engine.pc = "for"
    /\ LET bids == NonZero(engine.data, "bid1px")
           asks == NonZero(engine.data, "ask1px")
       IN  engine' = [engine EXCEPT
               !.pc = "done",
               !.raised = IF Len(engine.data) = 0 THEN "ValueError"
                          ELSE IF Len(bids) = 0 \/ Len(asks) = 0
                          THEN "IndexError" ELSE "",
               !.result = IF Len(bids) = 0 \/ Len(asks) = 0 THEN @
                          ELSE [initial_balance |-> InitialCash,
                                cash |-> strategy.cash,
                                hold_asset_value |->
                                    hold_asset_value(strategy, Last(bids),
                                                     Last(asks))]]
    /\ UNCHANGED <<strategy, _order_id_counter, _trade_id_counter>>
    /\ UNCHANGED book_vars

NextEngine == ForLoop \/ CheckTrades \/ FillOrders \/ OnUpdate \/ EndRun
SpecEngine == InitEngine /\ [][NextEngine]_vars

\* ------------------------------------------- a strategy of limit orders
\* A subclass of Strategy whose on_update sends, while it has sent no
\* order, one order it makes a limit order, or does nothing: the rows it
\* meets put the bid below and above the order's price, with and without
\* quantity on the ask side, and the ask below the order's price.
LimitRows ==
    {BookRow(100, 10, 101, 4), BookRow(102, 4, 103, 12),
     BookRow(102, 4, 103, 0), BookRow(99, 10, 100, 4)}

\* the order such an on_update sends: Order(...), then order.type = 'limit'
limit_order(side, time, price, latency, id) ==
    [Order(OrderSize, side, time, price, latency, id)
        EXCEPT !.type = "limit"]

ForLoopLimit ==
    /\ engine.pc = "for"
    /\ Len(engine.index) < MaxSteps
    /\ \E current_time \in Stamps \ Range(engine.index), row \in LimitRows :
        /\ engine' = [engine EXCEPT
               !.pc = "_check_trades",
               !.current_time = current_time,
               !.index = Append(@, current_time),
               !.data = Append(@, row)]
        /\ strategy' = [strategy EXCEPT !.current_time = current_time]
    /\ UNCHANGED <<_order_id_counter, _trade_id_counter>>
    /\ UNCHANGED book_vars

SendLimit ==
    /\ engine.pc = "on_update"
    /\ Len(strategy.orders) = 0
    /\ \E side \in Sides, latency \in _get_latency :
         /\ strategy' = order_send(strategy,
                limit_order(side, strategy.current_time, 101, latency,
                            ToString(_order_id_counter + 1)))
         /\ _order_id_counter' = _order_id_counter + 1
    /\ engine' = [engine EXCEPT !.pc = "for"]
    /\ UNCHANGED _trade_id_counter
    /\ UNCHANGED book_vars

\* Strategy.on_update: pass
Pass ==
    /\ engine.pc = "on_update"
    /\ engine' = [engine EXCEPT !.pc = "for"]
    /\ UNCHANGED <<strategy, _order_id_counter, _trade_id_counter>>
    /\ UNCHANGED book_vars

NextLimit ==
    ForLoopLimit \/ CheckTrades \/ FillOrders \/ SendLimit \/ Pass \/ EndRun
SpecLimit == Init /\ [][NextLimit]_vars

\* ------------------------------------------- a run over an ordered index
\* Engine.run with the OBIStrategy over a DataFrame whose index is 1, 2,
\* 3, ... : a longer run than those of SpecEngine, in which a trade meets
\* more than one position review.
ForLoopInOrder ==
    /\ engine.pc = "for"
    /\ Len(engine.index) < MaxRows
    /\ \E row \in BookRows :
        LET current_time == Len(engine.index) + 1
        IN  /\ engine' = [engine EXCEPT
                   !.pc = "_check_trades",
                   !.current_time = current_time,
                   !.index = Append(@, current_time),
                   !.data = Append(@, row)]
            /\ strategy' = [strategy EXCEPT !.current_time = current_time]
    /\ UNCHANGED <<_order_id_counter, _trade_id_counter>>
    /\ UNCHANGED book_vars

NextInOrder ==
    ForLoopInOrder \/ CheckTrades \/ FillOrders \/ OnUpdate \/ EndRun
SpecInOrder == InitEngine /\ [][NextInOrder]_vars

\* ------------------------------------ Engine: construction, data and run
\* The calls a program makes on an Engine before and in run().  A
\* DataFrame is its set of columns, the labels of its index and its rows;
\* of a row only the four top-of-book columns the engine reads are kept.
\* The strategy is an OBIStrategy; the 'signal' column calculate_obi adds
\* to its copy of the data is computed where on_update reads it.
MaxCalls == 2
MaxFrameRows == 2

\* Python's None, and the reference the engine holds to the strategy
None == [none |-> TRUE]
the_strategy == [ref |-> "strategy"]

required_columns ==
    {"Asset", "bid1qty", "bid1px", "bid2qty", "bid2px", "bid3qty", "bid3px",
     "ask1px", "ask1qty", "ask2px", "ask2qty", "ask3px", "ask3qty",
     "Mold Package"}

DataFrame(columns, rows) ==
    [columns |-> columns, index |-> [i \in 1..Len(rows) |-> i],
     rows |-> rows]

FrameRows == {BookRow(100, 10, 101, 0), BookRow(100, 10, 101, 4)}
RowLists ==
    UNION {[1..n -> FrameRows] : n \in 0..MaxFrameRows}
DataFrames ==
    {DataFrame(columns, rows) :
        columns \in {required_columns, required_columns \ {"Mold Package"}},
        rows \in RowLists}

empty(df) == Len(df.index) = 0 \/ df.columns = {}

\* Engine.__init__: data is kept as it is given
Engine(data) ==
    [pc |-> "new", current_time |-> 0, index |-> << >>, data |-> << >>,
     raised |-> "",
     result |-> [initial_balance |-> 0, cash |-> 0, hold_asset_value |-> 0],
     strategy |-> None, frame |-> data, calls |-> 0]

\* Strategy.__init__ sets self.data = None
OBIStrategy(obi_threshold) ==
    [cash |-> InitialCash, current_time |-> 0,
     orders |-> << >>, positions |-> << >>,
     obi_threshold |-> obi_threshold, spread |-> Spread, data |-> None]

InitSetup ==
    /\ order_book = OrderBookNew
    /\ snapshots = << >>
    /\ network_times = << >>
    /\ engine \in {Engine(data) : data \in DataFrames \cup {None}}
    /\ strategy = OBIStrategy(7)
    /\ _order_id_counter = 0
    /\ _trade_id_counter = 0

\* Engine.add_data: raises before the assignment where a column is missing
add_data(e, data) ==
    LET missing_columns == required_columns \ data.columns
    IN  IF missing_columns # {}
        THEN [e EXCEPT !.raised = "ValueError: Missing columns"]
        ELSE [e EXCEPT !.frame = data, !.raised = ""]

AddData ==
    /\ engine.pc = "new"
    /\ engine.calls < MaxCalls
    /\ \E data \in DataFrames :
          engine' = [add_data(engine, data) EXCEPT !.calls = @ + 1]
    /\ UNCHANGED <<strategy, _order_id_counter, _trade_id_counter>>
    /\ UNCHANGED book_vars

\* Engine.add_strategy, with OBIStrategy.add_data: data.copy() raises on
\* None, after the engine has taken the strategy
AddStrategy ==
    /\ engine.pc = "new"
    /\ engine.calls < MaxCalls
    /\ engine' = [engine EXCEPT
           !.strategy = the_strategy,
           !.raised = IF engine.frame = None THEN "AttributeError" ELSE "",
           !.calls = @ + 1]
    /\ strategy' = IF engine.frame = None THEN strategy
                   ELSE [strategy EXCEPT !.data = engine.frame]
    /\ UNCHANGED <<_order_id_counter, _trade_id_counter>>
    /\ UNCHANGED book_vars

\* a variant of the checks of run that lets every engine through
run_unchecked(e, st) == ""

\* the checks at the head of run
run_checks(e, st) ==
    IF e.strategy = None THEN "ValueError: No strategy"
    ELSE IF st.data = None \/ empty(st.data) THEN "ValueError: No data"
    ELSE ""

Run ==
    /\ engine.pc = "new"
    /\ LET error == run_checks(engine, strategy)
       IN  engine' = [engine EXCEPT
               !.pc = IF error # "" THEN "done" ELSE "for",
               !.raised = error]
    /\ UNCHANGED <<strategy, _order_id_counter, _trade_id_counter>>
    /\ UNCHANGED book_vars

\* `for current_time in self.data.index`
ForLoopData ==
    /\ engine.pc = "for"
    /\ engine.frame # None
    /\ Len(engine.index) < Len(engine.frame.index)
    /\ LET i == Len(engine.index) + 1
           current_time == engine.frame.index[i]
       IN  /\ engine' = [engine EXCEPT
                  !.pc = "_check_trades",
                  !.current_time = current_time,
                  !.index = Append(@, current_time),
                  !.data = Append(@, engine.frame.rows[i])]
           /\ strategy' = [strategy EXCEPT !.current_time = current_time]
    /\ UNCHANGED <<_order_id_counter, _trade_id_counter>>
    /\ UNCHANGED book_vars

\* strategy.on_update(): the row it reads is the one of its own data at
\* current_time, a KeyError where its data has no such label
OnUpdateData ==
    /\ engine.pc = "on_update"
    /\ LET now == strategy.current_time
       IN  IF ~Contains(strategy.data.index, now)
           THEN /\ engine' = [engine EXCEPT !.pc = "done",
                                            !.raised = "KeyError"]
                /\ UNCHANGED <<strategy, _order_id_counter>>
           ELSE /\ \E latency \in _get_latency :
                     LET w == on_update(World(strategy, _order_id_counter,
                                              _trade_id_counter),
                                        strategy.data.rows[now], latency)
                     IN  /\ strategy' = w.strategy
                         /\ _order_id_counter' = w._order_id_counter
                /\ engine' = [engine EXCEPT !.pc = "for"]
    /\ UNCHANGED _trade_id_counter
    /\ UNCHANGED book_vars

\* the index is exhausted: .iloc[-1] raises where no row has a non-zero
\* bid1px or none a non-zero ask1px
EndRunData ==
    /\ engine.pc = "for"
    /\ engine.frame # None
    /\ Len(engine.index) = Len(engine.frame.index)
    /\ LET bids == NonZero(engine.data, "bid1px")
           asks == NonZero(engine.data, "ask1px")
       IN  engine' = [engine EXCEPT
               !.pc = "done",
               !.raised = IF Len(bids) = 0 \/ Len(asks) = 0
                          THEN "IndexError" ELSE "",
               !.result = IF Len(bids) = 0 \/ Len(asks) = 0 THEN @
                          ELSE [initial_balance |-> InitialCash,
                                cash |-> strategy.cash,
                                hold_asset_value |->
                                    hold_asset_value(strategy, Last(bids),
                                                     Last(asks))]]
    /\ UNCHANGED <<strategy, _order_id_counter, _trade_id_counter>>
    /\ UNCHANGED book_vars

NextSetup ==
    \/ AddData \/ AddStrategy \/ Run
    \/ ForLoopData \/ CheckTrades \/ FillOrders \/ OnUpdateData \/ EndRunData
SpecSetup == InitSetup /\ [][NextSetup]_vars

\* ------------------------------------------- a strategy of delete orders
\* A subclass of Strategy whose on_update sends one limit order and, at a
\* later timestep, an order it makes a 'delete' order for the first: an
\* Order has no field for the order it is aimed at, so the strategy sets
\* type and target_id on the object.  Order() asks for a size, a side and
\* a price also here: the price is the target's, '' stands for a side that
\* is neither 'B' nor 'S'.
DeleteSizes == {0, OrderSize}
DeleteSides == Sides \cup {""}

delete_order_for(target, size, side, time, price, latency, id) ==
    [Order(size, side, time, price, latency, id) EXCEPT !.type = "delete"]
        @@ [target_id |-> target.id]

SendDelete ==
    /\ engine.pc = "on_update"
    /\ Len(strategy.orders) = 1
    /\ \E size \in DeleteSizes, side \in DeleteSides,
          latency \in _get_latency :
         /\ strategy' = order_send(strategy,
                delete_order_for(strategy.orders[1], size, side,
                                 strategy.current_time,
                                 strategy.orders[1].price, latency,
                                 ToString(_order_id_counter + 1)))
         /\ _order_id_counter' = _order_id_counter + 1
    /\ engine' = [engine EXCEPT !.pc = "for"]
    /\ UNCHANGED _trade_id_counter
    /\ UNCHANGED book_vars

NextDelete ==
    \/ ForLoopLimit \/ CheckTrades \/ FillOrders
    \/ SendLimit \/ SendDelete \/ Pass \/ EndRun
SpecDelete == Init /\ [][NextDelete]_vars

\* ------------------------------------ strategy.py: VWAPCrossoverStrategy
\* A float column is a list of numbers and NaN; a number is kept as the
\* fraction num / den with den > 0, so that quotients compare exactly.
MaxWindow == 3
MaxDfRows == 4

NaN == [nan |-> TRUE]
Number(num, den) == [num |-> num, den |-> den]

\* the rows of df: execpx and execqty of an execution
Executions ==
    {[execpx |-> 100, execqty |-> 10], [execpx |-> 102, execqty |-> 10],
     [execpx |-> 100, execqty |-> 20], [execpx |-> 101, execqty |-> 0]}
Windows == 1..MaxWindow

\* Series.rolling(window).sum(): NaN until window observations are there
rolling_sum(column, window) ==
    [i \in 1..Len(column) |->
        IF i < window THEN NaN
        ELSE Number(SumSeq(SubSeq(column, i - window + 1, i)), 1)]

\* px_vol_sum / vol_sum, element by element: NaN where an operand is NaN
\* and for 0 / 0
divide(a, b) ==
    [i \in 1..Len(a) |->
        IF a[i] = NaN \/ b[i] = NaN THEN NaN
        ELSE IF b[i].num = 0 THEN NaN
        ELSE Number(a[i].num * b[i].den, a[i].den * b[i].num)]

calculate_vwap(df, window) ==
    LET execqty == [i \in 1..Len(df) |-> df[i].execqty]
        px_qty == [i \in 1..Len(df) |-> df[i].execpx * df[i].execqty]
    IN  divide(rolling_sum(px_qty, window), rolling_sum(execqty, window))

\* a > b on floats: False where an operand is NaN
gt(a, b) ==
    /\ a # NaN
    /\ b # NaN
    /\ a.num * b.den > b.num * a.den

\* a variant of the np.where expression without its last branch
where_long_else_short(vwap_small, vwap_large) ==
    IF gt(vwap_small, vwap_large) THEN 1 ELSE 0 - 1

\* np.where(small > large, 1, np.where(small < large, -1, 0)) for one row
where(vwap_small, vwap_large) ==
    IF gt(vwap_small, vwap_large) THEN 1
    ELSE IF gt(vwap_large, vwap_small) THEN 0 - 1
    ELSE 0

\* VWAPCrossoverStrategy.__init__; args holds the windows of the latest
\* call of generate_signals, none before the first
VWAPCrossoverStrategy(df) ==
    [df |-> df, vwap_small |-> << >>, vwap_large |-> << >>,
     signal |-> << >>, args |-> << >>]

generate_signals(self, small_window, large_window) ==
    LET vwap_small == calculate_vwap(self.df, small_window)
        vwap_large == calculate_vwap(self.df, large_window)
    IN  [self EXCEPT
            !.vwap_small = vwap_small,
            !.vwap_large = vwap_large,
            !.signal = [i \in 1..Len(self.df) |->
                           where(vwap_small[i], vwap_large[i])],
            !.args = <<small_window, large_window>>]

InitSignals ==
    /\ order_book = OrderBookNew
    /\ snapshots = << >>
    /\ network_times = << >>
    /\ engine = EngineNew
    /\ strategy \in {VWAPCrossoverStrategy(df) :
                        df \in UNION {[1..n -> Executions] :
                                         n \in 0..MaxDfRows}}
    /\ _order_id_counter = 0
    /\ _trade_id_counter = 0

GenerateSignals ==
    /\ \E small_window \in Windows, large_window \in Windows :
          strategy' = generate_signals(strategy, small_window, large_window)
    /\ UNCHANGED <<engine, _order_id_counter, _trade_id_counter>>
    /\ UNCHANGED book_vars

NextSignals == GenerateSignals
SpecSignals == InitSignals /\ [][NextSignals]_vars

\* --------------------------------------- process_orders, ids never reused
\* process_orders over a DataFrame in which no Add row carries an order_id
\* that an order resting on the same side holds at that moment.
ProcessAddFresh ==
    \E record \in AddRecords :
        /\ record.order_id \notin DOMAIN order_book[IndexOf(record.side)]
        /\ CanProcess(record)
        /\ LET r == process_record(order_book, snapshots, record)
           IN  order_book' = r.order_book /\ snapshots' = r.snapshots
        /\ network_times' = Append(network_times, record.network_time)
        /\ UNCHANGED engine_vars

NextFresh == ProcessAddFresh \/ ProcessDelete \/ ProcessExecute
SpecFresh == Init /\ [][NextFresh]_vars

\* ================================================================ claims
RemoveAt(list, i) == SubSeq(list, 1, i - 1) \o SubSeq(list, i + 1, Len(list))

\* the orders of a level, in queue order
LevelOrders(ob, lv, p) ==
    IF p \in DOMAIN ob[lv]
    THEN [i \in 1..Len(ob[lv][p]) |-> ob.heap[ob[lv][p][i]]]
    ELSE << >>

QueueQty(ob, lv, p) ==
    SumSeq([i \in 1..Len(ob[lv][p]) |-> ob.heap[ob[lv][p][i]].qty])

\* the message names an order its side's index does not hold
Unknown(ob, record) == record.order_id \notin DOMAIN ob[IndexOf(record.side)]

\* this step is one iteration of process_orders on record
Processed(record) ==
    /\ network_times' = Append(network_times, record.network_time)
    /\ CanProcess(record)
    /\ LET r == process_record(order_book, snapshots, record)
       IN  order_book' = r.order_book /\ snapshots' = r.snapshots

\* this step is one call of add_order on order
Called(order) ==
    /\ ~order_book.raised
    /\ RoomFor(order)
    /\ order_book' = add_order(order_book, order)
    /\ UNCHANGED <<snapshots, network_times>>

EmptySnapshot(s) ==
    /\ s.bid1px = 0 /\ s.bid2px = 0 /\ s.bid3px = 0
    /\ s.ask1px = 0 /\ s.ask2px = 0 /\ s.ask3px = 0
    /\ s["Mold Package"] = ""

\* ---------------------------------------------------------------- C1
\* C1: after any sequence of Add/Delete/Execute messages, on both sides
\* the cached quantity of every price level equals the sum of the
\* quantities of the orders in the level's queue.
AggregateEqualsQueueSum ==
    \A side \in Sides :
        \A p \in DOMAIN order_book[LevelsOf(side)] :
            /\ p \in DOMAIN order_book[QtyOf(side)]
            /\ order_book[QtyOf(side)][p] = QueueQty(order_book, LevelsOf(side), p)

\* an Add reused an order id and the later order was deleted or executed
\* away: the level keeps the first order alone, which the index no longer
\* knows, and its cached quantity is that order's
OrphanLeftAlone ==
    \E p \in DOMAIN order_book.bids :
        /\ Len(order_book.bids[p]) = 1
        /\ order_book.heap[order_book.bids[p][1]].order_id
               \notin DOMAIN order_book.bid_order_dict
        /\ order_book.heap[order_book.bids[p][1]].qty = 2
        /\ order_book.asks # << >>

\* ---------------------------------------------------------------- C2
\* C2: no price level with an empty queue exists on either side, and the
\* prices that carry a cached quantity are exactly the prices that have a
\* level queue.
NoEmptyLevel ==
    /\ \A p \in DOMAIN order_book.bids : Len(order_book.bids[p]) > 0
    /\ \A p \in DOMAIN order_book.asks : Len(order_book.asks[p]) > 0
    /\ DOMAIN order_book.bid_qty_dict = DOMAIN order_book.bids
    /\ DOMAIN order_book.ask_qty_dict = DOMAIN order_book.asks

\* two rows were replayed: the first left a bid level (its snapshot shows
\* it), the second emptied it, and the bid side holds no level any more
LevelWasRemoved ==
    /\ Len(network_times) = 2
    /\ Len(snapshots) = 2
    /\ snapshots[1].bid1px # 0
    /\ snapshots[2].bid1px = 0
    /\ order_book.bids = << >>
    /\ order_book.bid_qty_dict = << >>

\* ---------------------------------------------------------------- C3
\* C3: at most one resting order per order_id exists on a side of the
\* book: an Add whose order_id already rests on that side adds no second
\* resting order under the same id.
OneRestingOrderPerId ==
    \A side \in Sides :
        \A p1, p2 \in DOMAIN order_book[LevelsOf(side)] :
            \A i \in 1..Len(order_book[LevelsOf(side)][p1]) :
                \A j \in 1..Len(order_book[LevelsOf(side)][p2]) :
                    LET h1 == order_book[LevelsOf(side)][p1][i]
                        h2 == order_book[LevelsOf(side)][p2][j]
                    IN  order_book.heap[h1].order_id = order_book.heap[h2].order_id
                            => h1 = h2

Column(side, k, what) ==
    (IF side = "B" THEN "bid" ELSE "ask") \o ToString(k) \o what

\* the snapshot lists price p on the side, with quantity qty
Lists(s, side, p, qty) ==
    \E k \in 1..3 : s[Column(side, k, "px")] = p /\ s[Column(side, k, "qty")] = qty
ListsPrice(s, side, p) ==
    \E k \in 1..3 : s[Column(side, k, "px")] = p

\* p is one of the three best prices of the side
AmongBest(ob, side, p) ==
    /\ p \in DOMAIN ob[LevelsOf(side)]
    /\ Cardinality({x \in DOMAIN ob[LevelsOf(side)] :
                       IF side = "B" THEN x > p ELSE x < p}) < 3

\* C5: for the resting order a row addresses, of quantity q at price p: an
\* Execute of r < q leaves the order at its place in the queue with
\* quantity q - r and lowers the level quantity by r, and the snapshot of
\* the row reports the lowered quantity at p; an Execute of r >= q, or a
\* Delete, removes the order from the queue and from the index, and removes
\* level p when the order was alone (the snapshot no longer lists p).
ExecuteAndDeleteEffect ==
    [][\A record \in DeleteRecords \cup ExecuteRecords :
          (~Unknown(order_book, record) /\ Processed(record)) =>
              LET lv == LevelsOf(record.side)
                  ix == IndexOf(record.side)
                  qd == QtyOf(record.side)
                  h == order_book[ix][record.order_id]
                  o == order_book.heap[h]
                  before == LevelOrders(order_book, lv, o.price)
                  after == LevelOrders(order_book', lv, o.price)
                  pos == IndexIn(order_book[lv][o.price], h)
                  level_qty == order_book[qd][o.price]
              IN  IF record.msg_type = "E" /\ record.qty < o.qty
                  THEN /\ after = [before EXCEPT ![pos].qty = o.qty - record.qty]
                       /\ record.order_id \in DOMAIN order_book'[ix]
                       /\ order_book'.heap[order_book'[ix][record.order_id]]
                              = [o EXCEPT !.qty = o.qty - record.qty]
                       /\ order_book'[qd][o.price] = level_qty - record.qty
                       /\ AmongBest(order_book', record.side, o.price)
                              => Lists(Last(snapshots'), record.side, o.price,
                                       level_qty - record.qty)
                  ELSE /\ record.order_id \notin DOMAIN order_book'[ix]
                       /\ after = RemoveAt(before, pos)
                       /\ Len(before) = 1
                              => /\ o.price \notin DOMAIN order_book'[lv]
                                 /\ ~ListsPrice(Last(snapshots'), record.side, o.price)]_vars

\* an Add of quantity 2 at price 2 and then an Execute of 1 on it: the
\* second snapshot lists the order, and its level, with quantity 1
PartialExecutionReported ==
    /\ Len(network_times) = 2
    /\ Len(snapshots) = 2
    /\ snapshots[1]["Mold Package"] = "A-B-2-2-1"
    /\ snapshots[2]["Mold Package"] = "A-B-2-1-1"
    /\ snapshots[2].bid1px = 2
    /\ snapshots[2].bid1qty = 1

\* ---------------------------------------------------------------- C6
\* C6: every snapshot carries the last execution of its timestamp as
\* (price of the executed resting order, executed quantity), and (0, 0)
\* when no Execute was applied at that timestamp.
SnapshotCarriesLastExecution ==
    \A i \in 1..Len(snapshots) :
        /\ "last_exec_price" \in DOMAIN snapshots[i]
        /\ "last_exec_qty" \in DOMAIN snapshots[i]
        /\ (snapshots[i]["last_exec_price"] = 0) = (snapshots[i]["last_exec_qty"] = 0)

\* ---------------------------------------------------------------- C7
\* the k-th highest and the k-th lowest element of a set of prices
KthHighest(S, k) == CHOOSE x \in S : Cardinality({y \in S : y > x}) = k - 1
KthLowest(S, k) == CHOOSE x \in S : Cardinality({y \in S : y < x}) = k - 1

\* C7: in every snapshot bid1px is the highest bid price of the book and
\* ask1px the lowest ask price; the listed bid prices descend strictly and
\* the listed ask prices ascend strictly, each with the quantity of its own
\* level; the slots past the existing levels hold price 0 and quantity 0.
TopOfBookOrdered ==
    LET s == snapshot(order_book, 1, AssetName)
        bid_set == DOMAIN order_book.bids
        ask_set == DOMAIN order_book.asks
    IN  /\ bid_set # {} => s.bid1px = SetMax(bid_set)
        /\ ask_set # {} => s.ask1px = SetMin(ask_set)
        /\ \A k \in 1..3 :
               IF k <= Cardinality(bid_set)
               THEN /\ s[Column("B", k, "px")] = KthHighest(bid_set, k)
                    /\ s[Column("B", k, "qty")]
                           = order_book.bid_qty_dict[KthHighest(bid_set, k)]
               ELSE s[Column("B", k, "px")] = 0 /\ s[Column("B", k, "qty")] = 0
        /\ \A k \in 1..3 :
               IF k <= Cardinality(ask_set)
               THEN /\ s[Column("S", k, "px")] = KthLowest(ask_set, k)
                    /\ s[Column("S", k, "qty")]
                           = order_book.ask_qty_dict[KthLowest(ask_set, k)]
               ELSE s[Column("S", k, "px")] = 0 /\ s[Column("S", k, "qty")] = 0

\* more bid levels than the snapshot lists, with a gap among them, and
\* fewer ask levels than it lists
FourBidsTwoAsks ==
    /\ DOMAIN order_book.bids = {1, 2, 4, 5}
    /\ DOMAIN order_book.asks = {2, 4}
    /\ order_book.bid_qty_dict[5] # order_book.bid_qty_dict[4]

\* ---------------------------------------------------------------- C8
Nondecreasing(list) == \A i \in 1..(Len(list) - 1) : list[i] <= list[i + 1]

\* the snapshots carry strictly increasing dates, one for every timestamp
\* of the rows, and the last one is the book after the last row
DatesIncreaseAndLastIsCurrent ==
    /\ \A i, j \in 1..Len(snapshots) :
           i < j => snapshots[i].Date < snapshots[j].Date
    /\ {snapshots[i].Date : i \in 1..Len(snapshots)} = Range(network_times)
    /\ network_times # << >> =>
           /\ Len(snapshots) > 0
           /\ Last(snapshots) = snapshot(order_book, Last(network_times), AssetName)

\* C8 as stated: the snapshots returned by process_orders are time-ordered
\* and timestamp-unique, one per timestamp, each the book after the last
\* row of its timestamp.
SnapshotsTimeOrderedUnique == DatesIncreaseAndLastIsCurrent

\* C8 as amended: the same, for rows given in non-decreasing network_time
\* order.
SnapshotsUniqueForOrderedRows ==
    Nondecreasing(network_times) => DatesIncreaseAndLastIsCurrent

\* three rows, the first two sharing a timestamp, gave two snapshots, and
\* the one of the shared timestamp shows the quantity left after its
\* second row
SharedTimestampCollapsed ==
    /\ network_times = <<1, 1, 2>>
    /\ Len(snapshots) = 2
    /\ snapshots[1]["Mold Package"] = "A-B-1-1-1"
    /\ snapshots[2]["Mold Package"] = ""

\* ---------------------------------------------------------------- C9
\* the entries of the listing that belong to a level are the level's
\* orders in queue order
ListingInQueueOrder(ob) ==
    \A side \in Sides :
        \A p \in DOMAIN ob[LevelsOf(side)] :
            LET orders == LevelOrders(ob, LevelsOf(side), p)
                entries == {MoldEntry(side, p, orders[i]) : i \in 1..Len(orders)}
            IN  AmongBest(ob, side, p) =>
                    SelectSeq(mold_packages(ob), LAMBDA e : e \in entries)
                        = [i \in 1..Len(orders) |-> MoldEntry(side, p, orders[i])]

\* C9: an Add places its order at the tail of the queue of its level and
\* touches no other queue; a Delete or an Execute removes one order of a
\* queue or lowers its quantity and keeps the order of the others; the
\* listing of a snapshot gives the orders of a level in queue order.
FifoKept ==
    [][/\ Cardinality(DOMAIN order_book'.heap) > Cardinality(DOMAIN order_book.heap)
              => \E side \in Sides, p \in Prices :
                     /\ LevelOrders(order_book', LevelsOf(side), p) # << >>
                     /\ LevelOrders(order_book', LevelsOf(side), p)
                            = Append(LevelOrders(order_book, LevelsOf(side), p),
                                     Last(LevelOrders(order_book', LevelsOf(side), p)))
                     /\ \A side2 \in Sides, p2 \in Prices :
                            <<side2, p2>> # <<side, p>> =>
                                LevelOrders(order_book', LevelsOf(side2), p2)
                                    = LevelOrders(order_book, LevelsOf(side2), p2)
       /\ Cardinality(DOMAIN order_book'.heap) <= Cardinality(DOMAIN order_book.heap)
              => \A side \in Sides, p \in Prices :
                     LET before == LevelOrders(order_book, LevelsOf(side), p)
                         after == LevelOrders(order_book', LevelsOf(side), p)
                     IN  \/ after = before
                         \/ \E i \in 1..Len(before) :
                                \/ after = RemoveAt(before, i)
                                \/ /\ Len(after) = Len(before)
                                   /\ after[i].qty < before[i].qty
                                   /\ after = [before EXCEPT ![i].qty = after[i].qty]
       /\ ListingInQueueOrder(order_book')]_vars

\* a bid level holds three orders with ids 1, 2, 1: the first is the order
\* a later Add of id 1 replaced in the index, and it is still ahead of it
ThreeOrdersInArrivalOrder ==
    \E p \in DOMAIN order_book.bids :
        /\ Len(order_book.bids[p]) = 3
        /\ order_book.heap[order_book.bids[p][1]].order_id = 1
        /\ order_book.heap[order_book.bids[p][2]].order_id = 2
        /\ order_book.heap[order_book.bids[p][3]].order_id = 1
        /\ order_book.bid_order_dict[1] = order_book.bids[p][3]

\* --------------------------------------------------------------- C10
\* C10: an order submitted at time T with latency L has no fill record
\* whose time is earlier than T + L, which is its bist_time, and an order
\* the callback of a timestep created has no fill record of that timestep
\* (the labels of the index are distinct, so the fill records of the
\* timestep of T are those whose time is T).
NoLookAhead ==
    \A k \in 1..Len(strategy.orders) :
        LET order == strategy.orders[k]
        IN  \A n \in 1..Len(order.exec_data) :
                /\ order.exec_data[n].time >= order.bist_time
                /\ order.exec_data[n].time # order.time

\* an order of latency 2 made at time 1 met at the timestep of time 2,
\* before its bist_time, a row that fills an arrived order, stayed without
\* a fill there, and was filled at the timestep of time 3
FilledOnceArrived ==
    \E k \in 1..Len(strategy.orders) :
        LET order == strategy.orders[k]
        IN  /\ order.time = 1
            /\ order.bist_time = 3
            /\ order.side = "B"
            /\ engine.index = <<1, 2, 3>>
            /\ engine.data[2].ask1px >= order.price
            /\ engine.data[2].ask1qty > 0
            /\ Len(order.exec_data) = 1
            /\ order.exec_data[1].time = 3
            /\ order.exec_data[1].volume > 0

\* --------------------------------------------------------------- C11
\* C11: the visibility delay of every order is strictly positive: the
\* bist_time of every order is later than its submit time, for every value
\* the latency sampler can draw.
VisibleAfterSubmit ==
    \A k \in 1..Len(strategy.orders) :
        strategy.orders[k].bist_time > strategy.orders[k].time

\* --------------------------------------------------------------- C12
\* C12: the engine never rejects or removes a market order: a market order
\* that has arrived and met a timestep where it cannot fill is still in
\* the waiting set, so no market order is ever marked deleted.
MarketOrderNeverRemoved ==
    \A k \in 1..Len(strategy.orders) :
        strategy.orders[k].type = "market"
            => strategy.orders[k].deleted = FALSE

\* --------------------------------------------------------------- C13
\* the row of data under a label of the index
RowAt(time) ==
    engine.data[CHOOSE i \in 1..Len(engine.index) : engine.index[i] = time]

\* the waiting volume of an order before its n-th fill record
WaitingBefore(order, n) ==
    order.size - Volume(SubSeq(order.exec_data, 1, n - 1))

\* C13: every fill record carries the opposing top-of-book price of its
\* timestep (ask1px for a buy, bid1px for a sell) and as volume the minimum
\* of the order's waiting volume before the fill and the opposing
\* top-of-book quantity (ask1qty for a buy, bid1qty for a sell).
FillAtOpposingTopOfBook ==
    \A k \in 1..Len(strategy.orders) :
        LET order == strategy.orders[k]
        IN  \A n \in 1..Len(order.exec_data) :
                LET fill == order.exec_data[n]
                    row == RowAt(fill.time)
                IN  IF order.side = "B"
                    THEN /\ fill.price = row.ask1px
                         /\ fill.volume
                                = Min(WaitingBefore(order, n), row.ask1qty)
                    ELSE /\ fill.price = row.bid1px
                         /\ fill.volume
                                = Min(WaitingBefore(order, n), row.bid1qty)

\* --------------------------------------------------------------- C14
\* C14: a limit order is filled only at a timestep whose opposing
\* top-of-book price satisfies its limit, ask1px <= price for a buy and
\* bid1px >= price for a sell, so no fill record of a limit buy carries a
\* price above its limit and none of a limit sell a price below it.
LimitRespected ==
    \A k \in 1..Len(strategy.orders) :
        LET order == strategy.orders[k]
        IN  order.type = "limit" =>
                \A n \in 1..Len(order.exec_data) :
                    LET fill == order.exec_data[n]
                        row == RowAt(fill.time)
                    IN  IF order.side = "B"
                        THEN row.ask1px <= order.price
                                 /\ fill.price <= order.price
                        ELSE row.bid1px >= order.price
                                 /\ fill.price >= order.price

\* --------------------------------------------------------------- C15
\* the place of a label in the index
PlaceOf(time) == CHOOSE i \in 1..Len(engine.index) : engine.index[i] = time

\* the fill pass of the timestep at place i of the index is over
FillPassOver(i) ==
    i < Len(engine.index) \/ engine.pc \in {"on_update", "for", "done"}

\* the fill records an order got at the timestep at place i
FillsAt(order, i) ==
    SelectSeq(order.exec_data, LAMBDA fill : fill.time = engine.index[i])

\* the fill records an order got before the timestep at place i
FillsBefore(order, i) ==
    SelectSeq(order.exec_data, LAMBDA fill : PlaceOf(fill.time) < i)

\* the order was made before the timestep at place i, has arrived by its
\* time and had volume waiting when its fill pass began
VisibleAt(order, i) ==
    /\ PlaceOf(order.time) < i
    /\ order.bist_time <= engine.index[i]
    /\ order.size - Volume(FillsBefore(order, i)) > 0

\* C15: a visible limit sell of price P with waiting volume gets no fill
\* at a timestep where bid1px < P and stays waiting, and gets a fill of
\* positive volume at a timestep where bid1px >= P and bid1qty > 0.
LimitSellWaitsForBid ==
    \A k \in 1..Len(strategy.orders) :
        LET order == strategy.orders[k]
        IN  (order.type = "limit" /\ order.side = "S") =>
                \A i \in 1..Len(engine.index) :
                    (FillPassOver(i) /\ VisibleAt(order, i)) =>
                        LET row == engine.data[i]
                            fills == FillsAt(order, i)
                        IN  /\ row.bid1px < order.price =>
                                Len(fills) = 0 /\ order.deleted = FALSE
                            /\ (row.bid1px >= order.price /\ row.bid1qty > 0)
                                => Len(fills) = 1 /\ fills[1].volume > 0

\* --------------------------------------------------------------- C16
\* C16: in a fill pass a visible buy order with waiting volume w is filled
\* with no more than the ask1qty a of the timestep; where a < w it is
\* filled with exactly a and is still waiting, with w - a, after the pass.
BuyFilledByWhatAskOffers ==
    [][engine.pc = "_fill_orders" =>
        \A k \in 1..Len(strategy.orders) :
            LET order == strategy.orders[k]
                after == strategy'.orders[k]
                w == waiting_volume(order)
                a == loc(engine).ask1qty
                filled == Volume(after.exec_data) - Volume(order.exec_data)
            IN  (/\ order.side = "B"
                 /\ IsWaiting(order)
                 /\ order.bist_time <= engine.current_time) =>
                    /\ filled <= a
                    /\ a < w => /\ filled = a
                                /\ IsWaiting(after)
                                /\ waiting_volume(after) = w - a]_vars

\* --------------------------------------------------------------- C17
\* C17: the volumes of the fill records of an order never sum to more than
\* its size, so its waiting volume is never negative, and they sum to its
\* size exactly once the order has left the waiting set by being filled.
FillsWithinSize ==
    \A k \in 1..Len(strategy.orders) :
        LET order == strategy.orders[k]
        IN  /\ Volume(order.exec_data) <= order.size
            /\ waiting_volume(order) >= 0
            /\ (~IsWaiting(order) /\ order.deleted = FALSE)
                   => Volume(order.exec_data) = order.size

\* an order filled in two timesteps, the second of which offered more than
\* the volume still waiting
FilledUpToSize ==
    \E k \in 1..Len(strategy.orders) :
        LET order == strategy.orders[k]
        IN  /\ Len(order.exec_data) = 2
            /\ order.exec_data[1].volume > 0
            /\ order.exec_data[2].volume
                   < RowAt(order.exec_data[2].time).ask1qty
            /\ Volume(order.exec_data) = order.size
            /\ ~IsWaiting(order)

\* --------------------------------------------------------------- C18
\* the sum of volume * price over a list of execution records
Notional(records) ==
    SumSeq([n \in 1..Len(records) |-> records[n].volume * records[n].price])

\* the signed volume * price of all recorded executions: the fill records
\* of buys and the close records of short trades count positive, the fill
\* records of sells and the close records of long trades negative
Executed(st) ==
    SumSeq([k \in 1..Len(st.orders) |->
               IF st.orders[k].side = "B"
               THEN Notional(st.orders[k].exec_data)
               ELSE 0 - Notional(st.orders[k].exec_data)])
    + SumSeq([j \in 1..Len(st.positions) |->
               IF st.positions[j].side = "B"
               THEN 0 - Notional(st.positions[j].close_data)
               ELSE Notional(st.positions[j].close_data)])

\* C18: at the end of a run the cash of the strategy is the initial cash
\* minus the signed volume * price of all recorded executions.
CashConserved ==
    (engine.pc = "done" /\ engine.raised = "")
        => /\ strategy.cash = InitialCash - Executed(strategy)
           /\ engine.result.cash = InitialCash - Executed(strategy)

\* --------------------------------------------------------------- C19
\* C19: the position review closes a long trade only at an offered price
\* <= its sl or >= its tp and a short trade only at an offered price >= its
\* sl or <= its tp: a trade that gets a close record in _check_trades got
\* it at such a price.
ClosedOnlyAtStopOrTarget ==
    [][engine.pc = "_check_trades" =>
        \A j \in 1..Len(strategy.positions) :
            LET trade == strategy.positions[j]
                after == strategy'.positions[j]
            IN  Len(after.close_data) > Len(trade.close_data) =>
                    LET offered == Last(after.close_data).price
                    IN  IF trade.side = "B"
                        THEN offered <= trade.sl \/ offered >= trade.tp
                        ELSE offered >= trade.sl \/ offered <= trade.tp]_vars

\* --------------------------------------------------------------- C20
\* the quantity a close of the trade is offered at a row: ask1qty for a
\* long trade, bid1qty for a short one
Available(trade, row) ==
    IF trade.side = "B" THEN row.ask1qty ELSE row.bid1qty

Terminal(order) == order.deleted \/ waiting_volume(order) = 0

\* the cash position_open moved for the trades at the places after n
RECURSIVE CashOfTrades(_, _)
CashOfTrades(positions, n) ==
    IF n >= Len(positions) THEN 0
    ELSE LET trade == Last(positions)
         IN  CashOfTrades(SubSeq(positions, 1, Len(positions) - 1), n)
             + (IF trade.side = "S" THEN trade.size * trade.price
                ELSE 0 - trade.size * trade.price)

\* C21: an order that is fully filled or marked deleted stays so, is not
\* in waiting_orders after any later step and gets no further fill record;
\* the step that marks an order deleted keeps the order's fill records,
\* keeps every trade opened before it as it was, and moves the cash only by
\* what the trades opened for other orders in the same fill pass moved.
TerminalOrdersAbsorbing ==
    [][\A k \in 1..Len(strategy.orders) :
          LET order == strategy.orders[k]
              after == strategy'.orders[k]
          IN  /\ Terminal(order) =>
                    /\ Terminal(after)
                    /\ after.exec_data = order.exec_data
                    /\ ~Contains(waiting_orders(strategy'), k)
              /\ (~order.deleted /\ after.deleted) =>
                    /\ after.exec_data = order.exec_data
                    /\ SubSeq(strategy'.positions, 1, Len(strategy.positions))
                           = strategy.positions
                    /\ strategy'.cash = strategy.cash
                           + CashOfTrades(strategy'.positions,
                                          Len(strategy.positions))]_vars

\* an order with recorded fills was marked deleted and a later fill pass,
\* over a row that fills a waiting buy, has left it alone
DeletedAfterPartialFill ==
    /\ engine.pc = "on_update"
    /\ loc(engine).ask1qty > 0
    /\ \E k \in 1..Len(strategy.orders) :
          LET order == strategy.orders[k]
          IN  /\ order.deleted
              /\ order.side = "B"
              /\ Volume(order.exec_data) > 0
              /\ waiting_volume(order) > 0
              /\ loc(engine).ask1px >= order.price
              /\ Last(order.exec_data).time < engine.current_time - 1

\* ---------------------------------------------------------------- C22
\* the fill records, the close records and the orders that carry time t
FillsOf(st, t) ==
    {<<k, n>> \in (1..Len(st.orders)) \X (1..MaxSteps) :
        n <= Len(st.orders[k].exec_data) /\ st.orders[k].exec_data[n].time = t}
ClosesOf(st, t) ==
    {<<j, n>> \in (1..Len(st.positions)) \X (1..(2 * MaxSteps)) :
        n <= Len(st.positions[j].close_data)
        /\ st.positions[j].close_data[n].time = t}
OrdersOf(st, t) == {k \in 1..Len(st.orders) : st.orders[k].time = t}

\* what a step leaves of the strategy's orders, and of the close records
\* of the trades it found
SameOrders(st, after) == after.orders = st.orders
SameCloses(st, after) ==
    \A j \in 1..Len(st.positions) :
        after.positions[j].close_data = st.positions[j].close_data

\* C22: the loop of run takes the rows in the order of the index, one at a
\* time, and in every timestep t runs the position review, then the fill
\* pass, then the callback: the review starts with nothing of t recorded,
\* the review makes no fill and no order, the fill pass closes nothing and
\* makes no order, and the callback starts only after both passes and is
\* the only step that makes the orders of time t.
ReviewThenFillThenCallback ==
    [][LET t == engine'.current_time
           from == engine.pc
           to == engine'.pc
       IN  /\ <<from, to>> \in {<<"for", "_check_trades">>,
                                <<"_check_trades", "_fill_orders">>,
                                <<"_fill_orders", "on_update">>,
                                <<"on_update", "for">>, <<"for", "done">>}
           /\ to = "_check_trades" =>
                 /\ engine'.index = Append(engine.index, t)
                 /\ Len(engine'.data) = Len(engine'.index)
                 /\ FillsOf(strategy', t) = {}
                 /\ ClosesOf(strategy', t) = {}
                 /\ OrdersOf(strategy', t) = {}
           /\ from # "for" =>
                 /\ engine'.index = engine.index
                 /\ engine'.data = engine.data
                 /\ t = engine.current_time
           /\ from = "_check_trades" =>
                 /\ SameOrders(strategy, strategy')
                 /\ Len(strategy'.positions) = Len(strategy.positions)
           /\ from = "_fill_orders" =>
                 /\ SameCloses(strategy, strategy')
                 /\ Len(strategy'.orders) = Len(strategy.orders)
                 /\ OrdersOf(strategy', t) = {}
           /\ from = "on_update" =>
                 /\ FillsOf(strategy', t) = FillsOf(strategy, t)
                 /\ Len(strategy'.positions) = Len(strategy.positions)
                 /\ \A k \in 1..Len(strategy'.orders) :
                       k > Len(strategy.orders)
                           <=> k \in OrdersOf(strategy', t)]_vars

\* a timestep, of a label below an earlier one, in which the review has
\* closed a long trade, the fill pass has filled and the callback has sent
\* a buy
AllThreePhasesActed ==
    /\ engine.pc = "for"
    /\ Len(engine.index) > 0
    /\ \E closed \in ClosesOf(strategy, engine.current_time) :
          strategy.positions[closed[1]].side = "B"
    /\ FillsOf(strategy, engine.current_time) # {}
    /\ \E k \in OrdersOf(strategy, engine.current_time) :
          strategy.orders[k].side = "B"
    /\ \E i \in 1..(Len(engine.index) - 1) :
          engine.index[i] > engine.current_time

\* ---------------------------------------------------------------- C23
\* C23: the engine never simulates over data that lacks a required column:
\* whenever a position review, a fill pass or a callback of run is due, the
\* data of the engine, whether it came through the constructor or through
\* add_data, has every required column.
SimulatedDataHasRequiredColumns ==
    engine.pc \in {"_check_trades", "_fill_orders", "on_update"}
        => required_columns \subseteq engine.frame.columns

\* ---------------------------------------------------------------- C24
\* C24: run on an engine without a strategy, or with a strategy whose data
\* is None or empty, raises ValueError at once: it ends the run in the
\* same step, before any position review, fill pass or callback, and leaves
\* the strategy's cash, orders and positions as they were.
RunWithoutStrategyOrDataFails ==
    [][(/\ engine.pc = "new"
        /\ engine'.pc # "new"
        /\ \/ engine.strategy = None
           \/ strategy.data = None
           \/ empty(strategy.data))
       => /\ engine'.pc = "done"
          /\ engine'.raised \in {"ValueError: No strategy",
                                 "ValueError: No data"}
          /\ engine'.index = << >>
          /\ strategy' = strategy]_vars

\* run has failed on a strategy with empty data although the engine's own
\* data has rows
RunFailedOnEmptyStrategyData ==
    /\ engine.pc = "done"
    /\ engine.raised = "ValueError: No data"
    /\ engine.strategy = the_strategy
    /\ strategy.data # None
    /\ empty(strategy.data)
    /\ engine.frame # None
    /\ ~empty(engine.frame)

\* ---------------------------------------------------------------- C25
\* C25: a run over one or more rows with a strategy attached ends with the
\* report of the cash and of the asset value, without an exception, also
\* where no row shows a non-zero bid1px or none a non-zero ask1px.
RunEndsWithReport ==
    (engine.pc = "done" /\ Len(engine.index) > 0)
        => /\ engine.raised = ""
           /\ engine.result.cash = strategy.cash

\* ---------------------------------------------------------------- C26
\* C26: the callback of a timestep leaves the cash as it was and every
\* trade with the close records it had, and changes the orders only by
\* appending new ones.
CallbackOnlyAddsOrders ==
    [][engine.pc = "on_update" =>
          /\ strategy'.cash = strategy.cash
          /\ strategy'.positions = strategy.positions
          /\ SubSeq(strategy'.orders, 1, Len(strategy.orders))
                 = strategy.orders]_vars

\* ---------------------------------------------------------------- C27
\* the trades a step has opened
Opened(st, after) ==
    {after.positions[j] :
        j \in (Len(st.positions) + 1)..Len(after.positions)}

\* C27: a buy is filled only while the cash covers price * volume: a fill
\* pass that fills only buys, one at least with a positive volume, does not
\* leave the cash below zero.
BuyFillsCoveredByCash ==
    [][(/\ engine.pc = "_fill_orders"
        /\ \E trade \in Opened(strategy, strategy') : trade.size > 0
        /\ \A trade \in Opened(strategy, strategy') : trade.side = "B")
       => strategy'.cash >= 0]_vars

\* ---------------------------------------------------------------- C28
\* the place in orders of the order with the given id
OrderWithId(st, id) ==
    CHOOSE k \in 1..Len(st.orders) : st.orders[k].id = id

\* the places of the waiting 'delete' orders a fill pass at current_time
\* finds arrived
VisibleDeletes(st, current_time) ==
    {k \in Range(waiting_orders(st)) :
        st.orders[k].type = "delete" /\ arrived(st.orders[k], current_time)}

\* C28: a fill pass that finds a 'delete' order waiting and arrived marks
\* the order of its target_id deleted, leaves neither of the two in
\* waiting_orders, and gives the 'delete' order no fill record; a pass in
\* which every waiting order is such a 'delete' order or its target opens
\* no trade and leaves the cash as it was.
DeleteOrderRemovesTarget ==
    [][engine.pc = "_fill_orders" =>
        LET deletes == VisibleDeletes(strategy, engine.current_time)
            targets == {OrderWithId(strategy, strategy.orders[k].target_id) :
                            k \in deletes}
        IN  /\ \A k \in deletes :
                  /\ strategy'.orders[k].exec_data = strategy.orders[k].exec_data
                  /\ ~Contains(waiting_orders(strategy'), k)
            /\ \A k \in targets :
                  /\ strategy'.orders[k].deleted
                  /\ strategy'.orders[k].exec_data = strategy.orders[k].exec_data
                  /\ ~Contains(waiting_orders(strategy'), k)
            /\ (deletes # {}
                /\ Range(waiting_orders(strategy)) \subseteq
                       (deletes \cup targets))
                => /\ strategy'.positions = strategy.positions
                   /\ strategy'.cash = strategy.cash]_vars

\* ---------------------------------------------------------------- C29
\* the sums of execpx * execqty and of execqty over the window rows that
\* end at row i
PxQty(df, i, window) ==
    SumSeq([n \in 1..window |->
               df[i - window + n].execpx * df[i - window + n].execqty])
Qty(df, i, window) ==
    SumSeq([n \in 1..window |-> df[i - window + n].execqty])

\* the VWAP over the window that ends at row i is defined
HasVwap(df, i, window) == i >= window /\ Qty(df, i, window) # 0

NewFills(st, after, k) ==
    SubSeq(after.orders[k].exec_data, Len(st.orders[k].exec_data) + 1,
           Len(after.orders[k].exec_data))

\* the sum of the opening sizes of the trades at the places after n
OpenedSize(positions, n) ==
    SumSeq([j \in 1..(Len(positions) - n) |-> positions[n + j].size])

\* C30: the trades a fill pass opens have, together, the size of the fill
\* records the pass appends, and the pass moves the cash by quantity times
\* price of those records, added for a sell and subtracted for a buy; so
\* the trades opened from an order total its executed amount and never
\* more than its size.
TradesAndCashMatchFillRecords ==
    [][engine.pc = "_fill_orders" =>
        LET places == 1..Len(strategy.orders)
            filled == [k \in places |->
                          Volume(NewFills(strategy, strategy', k))]
            moved == [k \in places |->
                         IF strategy.orders[k].side = "S"
                         THEN Notional(NewFills(strategy, strategy', k))
                         ELSE 0 - Notional(NewFills(strategy, strategy', k))]
        IN  /\ OpenedSize(strategy'.positions, Len(strategy.positions))
                   = SumSeq(filled)
            /\ strategy'.cash = strategy.cash + SumSeq(moved)]_vars

\* ---------------------------------------------------------------- C31
\* C31: every fill record of an order and every trade has a quantity above
\* zero: a fill pass that meets a quantity of zero at the top of the book
\* appends no record and opens no trade.
FillsAndTradesPositive ==
    /\ \A k \in 1..Len(strategy.orders) :
          \A n \in 1..Len(strategy.orders[k].exec_data) :
              strategy.orders[k].exec_data[n].volume > 0
    /\ \A j \in 1..Len(strategy.positions) : strategy.positions[j].size > 0

\* ---------------------------------------------------------------- C32
\* the places <<price, i>> of a side's queues that hold the object h
PlacesOf(ob, lv, h) ==
    {place \in (DOMAIN ob[lv]) \X (1..MaxOrders) :
        /\ place[2] <= Len(ob[lv][place[1]])
        /\ ob[lv][place[1]][place[2]] = h}

\* C32: while no Add reuses an order_id that rests on the same side, the
\* id index and the level queues of each side agree: every order of
\* bid_order_dict / ask_order_dict is stored under its own id, sits at
\* exactly one place of the queues of its side, in the queue of its own
\* price, and in no queue of the other side; and every order of a queue is
\* the one the side's index holds under its id.
IndexAndQueuesAgree ==
    \A side \in Sides :
        LET lv == LevelsOf(side)
            ix == IndexOf(side)
            other == LevelsOf(CHOOSE s \in Sides : s # side)
        IN  /\ \A id \in DOMAIN order_book[ix] :
                  LET h == order_book[ix][id]
                      order == order_book.heap[h]
                  IN  /\ order.order_id = id
                      /\ order.side = side
                      /\ Cardinality(PlacesOf(order_book, lv, h)) = 1
                      /\ \A place \in PlacesOf(order_book, lv, h) :
                            place[1] = order.price
                      /\ PlacesOf(order_book, other, h) = {}
            /\ \A p \in DOMAIN order_book[lv] :
                  \A i \in 1..Len(order_book[lv][p]) :
                      LET h == order_book[lv][p][i]
                          id == order_book.heap[h].order_id
                      IN  /\ id \in DOMAIN order_book[ix]
                          /\ order_book[ix][id] = h

\* two bids were added at one price under ids 1 and 2 and the first was
\* then deleted: the queue and the index are left with order 2 alone
SecondOfTwoLeftIndexed ==
    /\ Len(snapshots) = 2
    /\ snapshots[1]["Mold Package"] = "A-B-2-2-1;A-B-2-1-2"
    /\ snapshots[2]["Mold Package"] = "A-B-2-1-2"
    /\ DOMAIN order_book.bid_order_dict = {2}
    /\ DOMAIN order_book.bids = {2}
    /\ Len(order_book.bids[2]) = 1

\* ---------------------------------------------------------------- C33
\* the three price and quantity pairs a snapshot reports for each side
Reported(s) ==
    {<<s.bid1px, s.bid1qty>>, <<s.bid2px, s.bid2qty>>, <<s.bid3px, s.bid3qty>>,
     <<s.ask1px, s.ask1qty>>, <<s.ask2px, s.ask2qty>>, <<s.ask3px, s.ask3qty>>}

\* C33: with rows whose Add and Execute quantities are all above zero,
\* every order in a queue or in an id index has a quantity above zero, the
\* cached quantity of every price level is above zero, and no snapshot
\* reports a price other than 0 together with a quantity of 0 or less.
QuantitiesStayPositive ==
    /\ \A side \in Sides :
          /\ \A p \in DOMAIN order_book[LevelsOf(side)] :
                \A i \in 1..Len(order_book[LevelsOf(side)][p]) :
                    order_book.heap[order_book[LevelsOf(side)][p][i]].qty > 0
          /\ \A id \in DOMAIN order_book[IndexOf(side)] :
                order_book.heap[order_book[IndexOf(side)][id]].qty > 0
          /\ \A p \in DOMAIN order_book[QtyOf(side)] :
                order_book[QtyOf(side)][p] > 0
    /\ \A n \in 1..Len(snapshots) :
          \A pair \in Reported(snapshots[n]) : pair[1] # 0 => pair[2] > 0

\* an order of quantity 2 was executed by 1 and reported with quantity 1,
\* and the next row, an Execute of the rest or of more or a Delete, removed
\* it: the book is left without the level
ExecutedDownAndGone ==
    /\ network_times = <<1, 2, 1>>
    /\ Len(snapshots) = 3
    /\ snapshots[1]["Mold Package"] = "A-B-2-2-1"
    /\ snapshots[2]["Mold Package"] = "A-B-2-1-1"
    /\ snapshots[2].bid1qty = 1
    /\ snapshots[3]["Mold Package"] = ""
    /\ snapshots[3].bid1px = 0
    /\ order_book.bids = << >>
    /\ order_book.bid_qty_dict = << >>

====
